---- MODULE Spec2Model ----
(***************************************************************************)
(* tunnelgraf: the tunnel graph engine (class Tunnels), the TunnelBuilder  *)
(* life cycle, the HostsManager singleton and the TunnelCount singleton.   *)
(*                                                                         *)
(* Threads are call stacks of make_tunnel frames.  Thread 1 is the main    *)
(* (supervising) thread; every threading.Thread started by make_tunnel is  *)
(* a further stack.  External libraries (sshtunnel, paramiko,              *)
(* python_hosts) are the environment: their outcomes are chosen with \E.   *)
(***************************************************************************)
EXTENDS Integers, Sequences, FiniteSets, TLC

\* ------------------------------------------------------------------------
\* Bounds and program constants
\* ------------------------------------------------------------------------
MaxInterrupts == 1

\* variants: the loop of start_tunnel never runs / runs once more
retry_attempts_none == 0
retry_attempts_four == 4
retry_attempts == 3

None == "None"
DefaultBindAddress == "127.0.0.1"

\* ------------------------------------------------------------------------
\* TunnelDefinition trees.  Object k of a tree is the node with id k; a
\* nexthop is an object index (0 is None) and nexthops a sequence of object
\* indices (<<>> is None).
\* ------------------------------------------------------------------------
TunnelDefinition(id, host, port, localbindport, nexthop, nexthops, hostlookup, hosts_file_entry) ==
  [id |-> id, host |-> host, port |-> port,
   localbindaddress |-> DefaultBindAddress, localbindport |-> localbindport,
   nexthop |-> nexthop, nexthops |-> nexthops,
   hostlookup |-> hostlookup, hosts_file_entry |-> hosts_file_entry,
   hosts_file_entries |-> <<>>,
   protocol |-> "ssh", sshuser |-> None, sshpass |-> None, sshkeyfile |-> None]

\* bastion -> a -> b, the linear chain of the test profile
Chain ==
  << TunnelDefinition(1, "bastion.example", 2222, 10000, 2, <<>>, None, None),
     TunnelDefinition(2, "10.0.0.5", 22, 10001, 3, <<>>, None, None),
     TunnelDefinition(3, "10.0.0.6", 80, 10002, 0, <<>>, None, "svc.local") >>

\* the same chain with names to resolve through the previous hop
ChainLookup ==
  << TunnelDefinition(1, "bastion.example", 2222, 10000, 2, <<>>, None, None),
     TunnelDefinition(2, "10.0.0.5", 22, 10001, 3, <<>>, "a.internal", None),
     TunnelDefinition(3, "10.0.0.6", 80, 10002, 0, <<>>, "b.internal", None) >>

\* a root with two leaf children, each with an alias of its own
Fan ==
  << TunnelDefinition(1, "bastion.example", 2222, 10000, 0, <<2, 3>>, None, None),
     TunnelDefinition(2, "10.0.0.5", 22, 10001, 0, <<>>, None, "a.local"),
     TunnelDefinition(3, "10.0.0.6", 80, 10002, 0, <<>>, None, "b.local") >>

\* bastion -> a, and a fans out below the root
ChainFan ==
  << TunnelDefinition(1, "bastion.example", 2222, 10000, 2, <<>>, None, None),
     TunnelDefinition(2, "10.0.0.5", 22, 10001, 0, <<3>>, None, None),
     TunnelDefinition(3, "10.0.0.6", 80, 10002, 0, <<>>, None, "web.local") >>

\* a node that declares both nexthop and nexthops
Both ==
  << TunnelDefinition(1, "bastion.example", 2222, 10000, 2, <<3>>, None, None),
     TunnelDefinition(2, "10.0.0.5", 22, 10001, 0, <<>>, None, None),
     TunnelDefinition(3, "10.0.0.6", 80, 10002, 0, <<>>, None, None) >>

\* a one-element fan-out followed by a chain
FanChain ==
  << TunnelDefinition(1, "bastion.example", 2222, 10000, 0, <<2>>, None, None),
     TunnelDefinition(2, "10.0.0.5", 22, 10001, 3, <<>>, None, None),
     TunnelDefinition(3, "10.0.0.6", 80, 10002, 0, <<>>, None, None) >>

\* bastion -> svc, the two-hop chain; the bastion declares a list of aliases,
\* svc declares one alias and repeats it in its list
TwoHop ==
  << [TunnelDefinition(1, "example.com", 2222, 10000, 2, <<>>, None, None)
        EXCEPT !.hosts_file_entries = <<"bastion.local", "bastion">>],
     [TunnelDefinition(2, "10.0.0.5", 80, 10001, 0, <<>>, None, "svc.local")
        EXCEPT !.hosts_file_entries = <<"svc.local", "svc">>] >>

\* a profile that is a YAML list of two independent chains
TwoRoots ==
  << TunnelDefinition(1, "bastion.example", 2222, 10000, 2, <<>>, None, None),
     TunnelDefinition(2, "10.0.0.5", 22, 10001, 0, <<>>, None, None),
     TunnelDefinition(3, "other.example", 2222, 10002, 4, <<>>, None, None),
     TunnelDefinition(4, "10.0.1.5", 22, 10003, 0, <<>>, None, None) >>

\* a required key that the profile does not give
Missing == -1

\* profiles in which the second hop lacks localbindport, or id
NoLocalBindPort ==
  << TunnelDefinition(1, "bastion.example", 2222, 10000, 2, <<>>, None, None),
     TunnelDefinition(2, "10.0.0.5", 22, Missing, 0, <<>>, None, None) >>
NoId ==
  << TunnelDefinition(1, "bastion.example", 2222, 10000, 2, <<>>, None, None),
     TunnelDefinition(Missing, "10.0.0.5", 22, 10001, 0, <<>>, None, None) >>

Configs == {Chain, ChainLookup, Fan, ChainFan, Both, FanChain, TwoHop, TwoRoots,
            NoLocalBindPort, NoId}

\* The credentials of a profile as resolved by TunnelDefinition.__init__
\* (profile, ssh config, lastpass): the test profile's password login and a
\* key file login.  Every hop of a profile takes the same credentials here.
PasswordLogin == [sshuser |-> "root", sshpass |-> "tunnelgraf", sshkeyfile |-> None]
KeyfileLogin == [sshuser |-> "admin", sshpass |-> None, sshkeyfile |-> "id_rsa"]
Credentials == {PasswordLogin, KeyfileLogin}
WithCredentials(cfg, cr) ==
  [n \in 1..Len(cfg) |-> [cfg[n] EXCEPT !.sshuser = cr.sshuser,
                                        !.sshpass = cr.sshpass,
                                        !.sshkeyfile = cr.sshkeyfile]]

\* ------------------------------------------------------------------------
\* State
\* ------------------------------------------------------------------------
VARIABLES
  tunnel_defs,       \* the parsed tree as configured (never changes)
  connect_tunnels,   \* Tunnels._connect_tunnels
  objs,              \* the heap of TunnelDefinition objects (originals, then clones)
  stacks,            \* stacks[t]: call stack of thread t, thread 1 is the main thread
  died,              \* worker threads ended by an exception
  builders,          \* every TunnelBuilder ever constructed, in construction order
  tunnels,           \* Tunnels.tunnels: indices into builders
  tunnel_configs,    \* Tunnels.tunnel_configs
  new_hosts,         \* HostsManager.new_hosts: staged entries
  hosts_file,        \* the hosts file on disk
  commits,           \* number of calls of write_changes_to_hosts_file
  proc,              \* position of the main thread
  exit_status,       \* -1 while the main thread runs, else the exit status
  stop_calls,        \* number of calls of stop_tunnels
  stop_mode,         \* who called the running stop_tunnels
  stop_len,          \* len(self.tunnels) when reversed(self.tunnels) was made
  stop_idx,          \* position of reversed(self.tunnels)
  destroyed,         \* builders on which destroy_tunnel was invoked, in order
  TunnelCount_tunnels, \* TunnelCount._tunnels
  status,            \* the last status line
  interrupts,        \* SIGINTs delivered so far
  quits,             \* quit keypresses read by _check_for_quit so far
  show_credentials,  \* the show_credentials argument of Tunnels.__init__
  hosts_error,       \* the call in which writing the hosts file raised, if any
  links,             \* what the urls command printed (<<>> while it has not)
  original_hosts     \* HostsManager.original_hosts: the snapshot of the hosts file

vars == <<tunnel_defs, connect_tunnels, objs, stacks, died, builders, tunnels,
          tunnel_configs, new_hosts, hosts_file, commits, proc, exit_status,
          stop_calls, stop_mode, stop_len, stop_idx, destroyed, TunnelCount_tunnels,
          status, interrupts, quits, show_credentials, hosts_error, links,
          original_hosts>>

Main == 1
\* HostsManager.original_hosts: the hosts file as read when the singleton is made
OriginalEntries == << [name |-> "localhost", what_for |-> None] >>
NoStatus == [active |-> -1, total |-> -1, down |-> {}]

Init ==
  /\ connect_tunnels \in BOOLEAN
  /\ tunnel_defs \in {WithCredentials(cfg, cr) :
                        cfg \in Configs,
                        cr \in IF connect_tunnels THEN {PasswordLogin} ELSE Credentials}
  /\ objs = tunnel_defs
  /\ stacks = << <<>> >>
  /\ died = {}
  /\ builders = <<>>
  /\ tunnels = <<>>
  /\ tunnel_configs = <<>>
  /\ new_hosts = OriginalEntries
  /\ original_hosts = OriginalEntries
  /\ hosts_file = OriginalEntries
  /\ commits = 0
  /\ proc = "new"
  /\ exit_status = -1
  /\ stop_calls = 0
  /\ stop_mode = None
  /\ stop_len = 0
  /\ stop_idx = 0
  /\ destroyed = <<>>
  /\ TunnelCount_tunnels = <<>>
  /\ status = NoStatus
  /\ interrupts = 0
  /\ quits = 0
  /\ show_credentials \in (IF connect_tunnels THEN {FALSE} ELSE BOOLEAN)
  /\ hosts_error = None
  /\ links = <<>>

\* ------------------------------------------------------------------------
\* Helpers on stacks and trees
\* ------------------------------------------------------------------------
Threads == 1..Len(stacks)
Workers == Threads \ {Main}
Running(t) == stacks[t] # <<>>
Top(t) == stacks[t][Len(stacks[t])]
Frame(o, pc, worker) == [obj |-> o, pc |-> pc, i |-> 0, b |-> 0, worker |-> worker]
SetTop(t, f) == [stacks EXCEPT ![t] = [@ EXCEPT ![Len(@)] = f]]
Call(t, f, g) == [stacks EXCEPT ![t] = Append([@ EXCEPT ![Len(@)] = f], g)]
At(t, pc) == Running(t) /\ Top(t).pc = pc /\ (t = Main => proc = "make")

Roots == <<1>>
NodeIds == 1..Len(tunnel_defs)
Children(n) ==
  {c \in NodeIds : tunnel_defs[n].nexthop = c
                   \/ \E k \in 1..Len(tunnel_defs[n].nexthops) : tunnel_defs[n].nexthops[k] = c}
IsRoot(n) == \A p \in NodeIds : n \notin Children(p)
Parent(n) == CHOOSE p \in NodeIds : n \in Children(p)


NoAddr == <<None, 0>>
ResolvedAddress == "192.0.2.10"
\* exec_command returns, raises paramiko.SSHException, or raises anything else
ExecOutcomes == {"ok", "SSHException", "other"}
\* after exec_command returned: stdout holds an address, or stdout is empty
\* (dig +short prints nothing for a name it cannot resolve), both with exit
\* status 0; or the remote command ended with a non-zero exit status
CommandResults == {"address", "empty", "exit_nonzero"}

IsLeaf(d) == d.nexthops = <<>> /\ d.nexthop = 0

\* Variant of Raise in which an exception that leaves a worker is not
\* contained: it ends the whole process with the given status.
Raise_ends_process(t, code) ==
  /\ stacks' = [stacks EXCEPT ![t] = <<>>]
  /\ proc' = "exited"
  /\ exit_status' = code
  /\ died' = IF t = Main THEN died ELSE died \cup {t}

\* An exception (or SystemExit) leaving the outermost frame of thread t: in
\* the main thread it ends the process with the given status, in a worker
\* it ends the worker only.
Raise(t, code) ==
  /\ stacks' = [stacks EXCEPT ![t] = <<>>]
  /\ IF t = Main
       THEN /\ proc' = "exited"
            /\ exit_status' = code
            /\ died' = died
       ELSE /\ died' = died \cup {t}
            /\ UNCHANGED <<proc, exit_status>>

\* ------------------------------------------------------------------------
\* Tunnels.__init__ lines 40-44
\* ------------------------------------------------------------------------
\* self.config is a list when the profile has more than one root
ConfigIsList == \E n \in NodeIds : n # Roots[1] /\ IsRoot(n)

\* variant: no field is required
RequiredFields_none == {}

\* the fields declared with Field(...): pydantic raises ValidationError when
\* one is absent, for the root and for every nested nexthop / nexthops node
RequiredFields == {"id", "localbindport"}

ConfigIsValid ==
  \A n \in NodeIds : \A f \in RequiredFields : tunnel_defs[n][f] # Missing

\* TunnelDefinition(**self.config): a mapping is parsed into the tree; a list
\* cannot be unpacked with ** and the TypeError ends the process, and so does
\* the ValidationError of a tree with a required field missing.
Tunnels_init ==
  /\ proc = "new"
  /\ IF ConfigIsList \/ ~ConfigIsValid
       THEN proc' = "exited" /\ exit_status' = 1
       ELSE proc' = "init" /\ exit_status' = exit_status
  /\ UNCHANGED <<links, original_hosts, tunnel_defs, connect_tunnels, objs, stacks, died, builders,
                 tunnels, tunnel_configs, new_hosts, hosts_file, commits,
                 stop_calls, stop_mode, stop_len, stop_idx, destroyed,
                 TunnelCount_tunnels, status, interrupts, quits,
                 show_credentials, hosts_error>>

\* ------------------------------------------------------------------------
\* Tunnels.make_tunnels / make_tunnel
\* ------------------------------------------------------------------------
make_tunnels ==
  /\ proc = "init"
  /\ proc' = "make"
  /\ stacks' = [stacks EXCEPT ![Main] = <<Frame(Roots[1], "make_tunnel", FALSE)>>]
  /\ UNCHANGED <<links, original_hosts, tunnel_defs, connect_tunnels, objs, died, builders, tunnels,
                 tunnel_configs, new_hosts, hosts_file, commits, exit_status,
                 stop_calls, stop_mode, stop_len, stop_idx, destroyed,
                 TunnelCount_tunnels, status, interrupts, quits, show_credentials, hosts_error>>

\* variant: the credential fields are never excluded
get_excluded_fields_keeps_credentials(show) ==
  {"nexthop", "nexthops", "localbindaddress", "localbindport"}

\* Tunnels._get_excluded_fields
get_excluded_fields(show) ==
  {"nexthop", "nexthops", "localbindaddress", "localbindport"}
    \cup (IF ~show THEN {"sshuser", "sshpass", "sshkeyfile"} ELSE {})

\* this_tunnel_def.model_dump(exclude=self._excluded_fields)
model_dump(d) ==
  [f \in DOMAIN d \ get_excluded_fields(show_credentials) |-> d[f]]

\* variant: no test for an entry with the same id
add_to_processed_configs_no_dedupe(configs, d) ==
  Append(configs, model_dump(d))

\* variant: an entry with the same id is replaced by the new dump
add_to_processed_configs_last_wins(configs, d) ==
  IF \E k \in 1..Len(configs) : configs[k].id = d.id
    THEN [k \in 1..Len(configs) |->
            IF configs[k].id = d.id THEN model_dump(d) ELSE configs[k]]
    ELSE Append(configs, model_dump(d))

\* Tunnels._add_to_processed_configs
add_to_processed_configs(configs, d) ==
  IF \E k \in 1..Len(configs) : configs[k].id = d.id
    THEN configs
    ELSE Append(configs, model_dump(d))

\* The frames of thread t once its top frame has returned: a worker's target
\* frame (_process_nexthop) has nothing left to do after make_tunnel returns.
RECURSIVE Unwind(_)
Unwind(st) ==
  IF st # <<>> /\ st[Len(st)].pc = "return"
    THEN Unwind(SubSeq(st, 1, Len(st) - 1))
    ELSE st
Return(t) == [stacks EXCEPT ![t] = Unwind(SubSeq(@, 1, Len(@) - 1))]

\* make_tunnel lines 191-198: record the node, then hand a leaf nexthop to a
\* new thread and process any other nexthop in the calling thread.
SpawnsThread(nh) == IsLeaf(nh)

make_tunnel(t) ==
  /\ At(t, "make_tunnel")
  /\ LET d == objs[Top(t).obj] IN
       /\ tunnel_configs' = add_to_processed_configs(tunnel_configs, d)
       /\ IF d.nexthop = 0
            THEN IF d.nexthops = <<>>
                   THEN stacks' = Return(t)
                   ELSE stacks' = SetTop(t, [Top(t) EXCEPT !.pc = "nexthops"])
            ELSE IF SpawnsThread(objs[d.nexthop])
              THEN stacks' = Append(
                     IF d.nexthops = <<>> THEN Return(t)
                     ELSE SetTop(t, [Top(t) EXCEPT !.pc = "nexthops"]),
                     <<Frame(Top(t).obj, "process_nexthop", TRUE)>>)
              ELSE stacks' = SetTop(t, [Top(t) EXCEPT !.pc = "process_nexthop"])
  /\ UNCHANGED <<links, original_hosts, tunnel_defs, connect_tunnels, objs, died, builders, tunnels,
                 new_hosts, hosts_file, commits, proc, exit_status,
                 stop_calls, stop_mode, stop_len, stop_idx, destroyed,
                 TunnelCount_tunnels, status, interrupts, quits, show_credentials, hosts_error>>

\* variant: the port is not rewritten
update_bastion_address_host_only(d) ==
  [d EXCEPT !.host = d.localbindaddress]

\* Tunnels._update_bastion_address
update_bastion_address(d) ==
  [d EXCEPT !.host = d.localbindaddress, !.port = d.localbindport]

\* TunnelBuilder.__init__ lines 23-28
NewBuilder(t, d, nh) ==
  [thread |-> t, config |-> Top(t).obj, bastion |-> d.id, hop |-> nh.id,
   lookup_dial |-> NoAddr, session |-> None, last_exec |-> None,
   ssh_address |-> NoAddr,
   remote_bind_address |-> NoAddr, local_bind_address |-> NoAddr,
   created |-> FALSE, attempts |-> 0, is_active |-> FALSE,
   started |-> FALSE, finished |-> FALSE, deleted |-> FALSE]

\* TunnelBuilder.__init__ lines 35-52 and create_tunnel lines 64-69: the
\* forwarder is made from the bastion's host/port and the nexthop's fields
\* as they are now; start_tunnel then enters its loop over range(retry_attempts).
StartLoop == IF 0 < retry_attempts THEN "start_tunnel" ELSE "add_to_hosts"
create_tunnel(b, d, nh) ==
  [b EXCEPT !.ssh_address = <<d.host, d.port>>,
            !.remote_bind_address = <<nh.host, nh.port>>,
            !.local_bind_address = <<nh.localbindaddress, nh.localbindport>>,
            !.created = TRUE,
            !.finished = ~(0 < retry_attempts)]

\* variant: the nexthop is not rewritten before the recursion
Recurse_without_rewrite(t) ==
  LET nh == objs[Top(t).obj].nexthop IN
    /\ objs' = objs
    /\ stacks' = Call(t, [Top(t) EXCEPT !.pc = IF Top(t).worker THEN "return"
                                                ELSE IF objs[Top(t).obj].nexthops = <<>>
                                                  THEN "return" ELSE "nexthops"],
                      Frame(nh, "make_tunnel", FALSE))

\* _process_nexthop lines 205-206: rewrite the nexthop in place and recurse
Recurse(t) ==
  LET nh == objs[Top(t).obj].nexthop IN
    /\ objs' = [objs EXCEPT ![nh] = update_bastion_address(objs[nh])]
    /\ stacks' = Call(t, [Top(t) EXCEPT !.pc = IF Top(t).worker THEN "return"
                                                ELSE IF objs[Top(t).obj].nexthops = <<>>
                                                  THEN "return" ELSE "nexthops"],
                      Frame(nh, "make_tunnel", FALSE))

\* variant: _process_nexthop does not test self._connect_tunnels
process_nexthop_connects_always == TRUE

\* _process_nexthop line 203: if self._connect_tunnels
process_nexthop_connects == connect_tunnels

\* _process_nexthop: TunnelBuilder(...) is entered only when connecting;
\* without a hostlookup the forwarder is made at once.
process_nexthop(t) ==
  /\ At(t, "process_nexthop")
  /\ LET d == objs[Top(t).obj]
         nh == objs[d.nexthop] IN
       IF process_nexthop_connects
         THEN /\ IF nh.hostlookup # None
                   THEN /\ builders' = Append(builders, NewBuilder(t, d, nh))
                        /\ stacks' = SetTop(t, [Top(t) EXCEPT !.pc = "lookup_host",
                                                               !.b = Len(builders) + 1])
                   ELSE /\ builders' = Append(builders, create_tunnel(NewBuilder(t, d, nh), d, nh))
                        /\ stacks' = SetTop(t, [Top(t) EXCEPT !.pc = StartLoop,
                                                               !.b = Len(builders) + 1])
              /\ objs' = objs
         ELSE /\ builders' = builders
              /\ Recurse(t)
  /\ UNCHANGED <<links, original_hosts, tunnel_defs, connect_tunnels, died, tunnels,
                 tunnel_configs, new_hosts, hosts_file, commits, proc,
                 exit_status, stop_calls, stop_mode, stop_len, stop_idx, destroyed,
                 TunnelCount_tunnels, status, interrupts, quits, show_credentials, hosts_error>>

\* TunnelBuilder._lookup_host, RunCommand.__init__: the session dials
\* (host, localbindport) of the bastion; when connect raises, every except
\* clause ends in exit(1).
lookup_host(t) ==
  /\ At(t, "lookup_host")
  /\ LET d == objs[Top(t).obj]
         b == Top(t).b
         dialled == [builders[b] EXCEPT !.lookup_dial = <<d.host, d.localbindport>>] IN
     \E connected \in BOOLEAN :
       IF connected
         THEN /\ builders' = [builders EXCEPT ![b] = [dialled EXCEPT !.session = "connected"]]
              /\ stacks' = SetTop(t, [Top(t) EXCEPT !.pc = "run", !.i = 0])
              /\ UNCHANGED <<died, proc, exit_status>>
         ELSE /\ builders' = [builders EXCEPT ![b] = [dialled EXCEPT !.session = "failed"]]
              /\ Raise(t, 1)
  /\ UNCHANGED <<links, original_hosts, tunnel_defs, connect_tunnels, objs, tunnels, tunnel_configs,
                 new_hosts, hosts_file, commits, stop_calls, stop_mode,
                 stop_len, stop_idx, destroyed, TunnelCount_tunnels, status,
                 interrupts, quits, show_credentials, hosts_error>>

\* variant: one more attempt
attempts_four == 4

\* RunCommand.run: attempts = 3
attempts == 3

\* One iteration of the loop of RunCommand.run, the frame's i being the
\* loop variable attempt.  exec_command returned: break, the results are
\* read (a non-zero exit status is passed to sys.exit), NSLookup hands the
\* stripped stdout to _lookup_host unchanged, it overwrites nexthop.host and
\* the forwarder is made.  SSHException: the next attempt after a sleep, or
\* after the last attempt the loop ends and stderr.read() raises
\* UnboundLocalError.  Any other exception leaves run at once.
RunCommand_run(t) ==
  /\ At(t, "run")
  /\ LET d == objs[Top(t).obj]
         b == Top(t).b
         attempt == Top(t).i IN
     \E outcome \in ExecOutcomes :
       LET tried == [builders[b] EXCEPT !.last_exec = outcome] IN
       CASE outcome = "ok" ->
              \E result \in CommandResults :
                IF result = "exit_nonzero"
                  THEN /\ objs' = objs
                       /\ builders' = [builders EXCEPT ![b] = tried]
                       /\ Raise(t, 1)
                  ELSE LET nh == [objs[d.nexthop] EXCEPT
                                    !.host = IF result = "address"
                                               THEN ResolvedAddress ELSE ""] IN
                       /\ objs' = [objs EXCEPT ![d.nexthop] = nh]
                       /\ builders' = [builders EXCEPT ![b] = create_tunnel(tried, d, nh)]
                       /\ stacks' = SetTop(t, [Top(t) EXCEPT !.pc = StartLoop, !.i = 0])
                       /\ UNCHANGED <<died, proc, exit_status>>
         [] outcome = "SSHException" /\ attempt + 1 < attempts ->
              /\ objs' = objs
              /\ builders' = [builders EXCEPT ![b] = tried]
              /\ stacks' = SetTop(t, [Top(t) EXCEPT !.i = attempt + 1])
              /\ UNCHANGED <<died, proc, exit_status>>
         [] OTHER ->
              /\ objs' = objs
              /\ builders' = [builders EXCEPT ![b] = tried]
              /\ Raise(t, 1)
  /\ UNCHANGED <<links, original_hosts, tunnel_defs, connect_tunnels, tunnels, tunnel_configs,
                 new_hosts, hosts_file, commits, stop_calls, stop_mode,
                 stop_len, stop_idx, destroyed, TunnelCount_tunnels, status,
                 interrupts, quits, show_credentials, hosts_error>>

\* One iteration of the loop of TunnelBuilder.start_tunnel: tunnel.start(),
\* then the is_active test; the forwarder decides whether it is active.  The
\* loop ends by break (started) or when range(retry_attempts) is used up.
start_tunnel(t) ==
  /\ At(t, "start_tunnel")
  /\ LET b == Top(t).b
         attempt == builders[b].attempts IN
     \E active \in BOOLEAN :
       /\ builders' = [builders EXCEPT
            ![b].attempts = attempt + 1,
            ![b].is_active = active,
            ![b].started = active,
            ![b].finished = active \/ attempt + 1 >= retry_attempts]
       /\ stacks' = SetTop(t, [Top(t) EXCEPT
            !.pc = IF active \/ attempt + 1 >= retry_attempts
                     THEN "add_to_hosts" ELSE "start_tunnel"])
  /\ UNCHANGED <<links, original_hosts, tunnel_defs, connect_tunnels, objs, died, tunnels,
                 tunnel_configs, new_hosts, hosts_file, commits, proc,
                 exit_status, stop_calls, stop_mode, stop_len, stop_idx, destroyed,
                 TunnelCount_tunnels, status, interrupts, quits, show_credentials, hosts_error>>

\* HostsManager.add_to_hosts lines 37-40: the aliases are appended to the
\* nexthop's own hosts_file_entries list; lines 41-50 then loop over it.
HostNames(nh) ==
  nh.hosts_file_entries
    \o (IF nh.hosts_file_entry # None THEN <<nh.hosts_file_entry>> ELSE <<>>)
    \o (IF nh.hostlookup # None THEN <<nh.hostlookup>> ELSE <<>>)

add_to_hosts(t) ==
  /\ At(t, "add_to_hosts")
  /\ LET d == objs[Top(t).obj]
         nh == objs[d.nexthop] IN
       /\ objs' = [objs EXCEPT ![d.nexthop].hosts_file_entries = HostNames(nh)]
       /\ stacks' = SetTop(t, [Top(t) EXCEPT !.i = 0,
                                             !.pc = IF HostNames(nh) = <<>>
                                                      THEN "append" ELSE "new_hosts_add"])
  /\ UNCHANGED <<links, original_hosts, tunnel_defs, connect_tunnels, died, builders, tunnels,
                 tunnel_configs, new_hosts, hosts_file, commits, proc, exit_status,
                 stop_calls, stop_mode, stop_len, stop_idx, destroyed,
                 TunnelCount_tunnels, status, interrupts, quits, show_credentials, hosts_error>>

\* The loop of add_to_hosts after one name is done: the next name, or back
\* in TunnelBuilder.__init__, which returns to _process_nexthop.
NextHost(t) ==
  LET names == objs[objs[Top(t).obj].nexthop].hosts_file_entries IN
    IF Top(t).i + 1 < Len(names)
      THEN SetTop(t, [Top(t) EXCEPT !.i = Top(t).i + 1, !.pc = "new_hosts_add"])
      ELSE SetTop(t, [Top(t) EXCEPT !.i = 0, !.pc = "append"])

\* self.new_hosts.add(entries=[this_entry], allow_address_duplication=True),
\* first half: python_hosts collects the names already staged and drops an
\* entry whose name is among them; any other entry will be imported.  The
\* HostsManager singleton is shared by all threads and takes no lock.
new_hosts_add(t) ==
  /\ At(t, "new_hosts_add")
  /\ LET host == objs[objs[Top(t).obj].nexthop].hosts_file_entries[Top(t).i + 1] IN
       IF \E k \in 1..Len(new_hosts) : new_hosts[k].name = host
         THEN stacks' = NextHost(t)
         ELSE stacks' = SetTop(t, [Top(t) EXCEPT !.pc = "entries_append"])
  /\ UNCHANGED <<links, original_hosts, tunnel_defs, connect_tunnels, objs, died, builders, tunnels,
                 tunnel_configs, new_hosts, hosts_file, commits, proc, exit_status,
                 stop_calls, stop_mode, stop_len, stop_idx, destroyed,
                 TunnelCount_tunnels, status, interrupts, quits, show_credentials, hosts_error>>

\* variant: the entry is written over the staged list instead of appended
entries_append_overwrites(t) ==
  /\ At(t, "entries_append")
  /\ LET nh == objs[objs[Top(t).obj].nexthop] IN
       new_hosts' = Append(OriginalEntries,
                           [name |-> nh.hosts_file_entries[Top(t).i + 1],
                            what_for |-> nh.id])
  /\ stacks' = NextHost(t)
  /\ UNCHANGED <<links, original_hosts, tunnel_defs, connect_tunnels, objs, died, builders, tunnels,
                 tunnel_configs, hosts_file, commits, proc, exit_status,
                 stop_calls, stop_mode, stop_len, stop_idx, destroyed,
                 TunnelCount_tunnels, status, interrupts, quits, show_credentials, hosts_error>>

\* variant: original_hosts and new_hosts are one Hosts object, so the entry
\* staged is in the snapshot too
entries_append_to_snapshot(t) ==
  /\ At(t, "entries_append")
  /\ LET nh == objs[objs[Top(t).obj].nexthop]
         entry == [name |-> nh.hosts_file_entries[Top(t).i + 1], what_for |-> nh.id] IN
       /\ new_hosts' = Append(new_hosts, entry)
       /\ original_hosts' = Append(original_hosts, entry)
  /\ stacks' = NextHost(t)
  /\ UNCHANGED <<links, tunnel_defs, connect_tunnels, objs, died, builders, tunnels,
                 tunnel_configs, hosts_file, commits, proc, exit_status,
                 stop_calls, stop_mode, stop_len, stop_idx, destroyed,
                 TunnelCount_tunnels, status, interrupts, quits, show_credentials, hosts_error>>

\* new_hosts.add, second half: self.entries.append(item) for the imported
\* entry; the names staged by other threads since the first half are not
\* looked at again.
entries_append(t) ==
  /\ At(t, "entries_append")
  /\ LET nh == objs[objs[Top(t).obj].nexthop] IN
       new_hosts' = Append(new_hosts,
                           [name |-> nh.hosts_file_entries[Top(t).i + 1],
                            what_for |-> nh.id])
  /\ stacks' = NextHost(t)
  /\ UNCHANGED <<links, original_hosts, tunnel_defs, connect_tunnels, objs, died, builders, tunnels,
                 tunnel_configs, hosts_file, commits, proc, exit_status,
                 stop_calls, stop_mode, stop_len, stop_idx, destroyed,
                 TunnelCount_tunnels, status, interrupts, quits, show_credentials, hosts_error>>

\* _process_nexthop lines 204-206 after TunnelBuilder(...) has returned:
\* self.tunnels.append(...), then the rewrite and the recursion
tunnels_append(t) ==
  /\ At(t, "append")
  /\ tunnels' = Append(tunnels, Top(t).b)
  /\ Recurse(t)
  /\ UNCHANGED <<links, original_hosts, tunnel_defs, connect_tunnels, died, builders,
                 tunnel_configs, new_hosts, hosts_file, commits, proc,
                 exit_status, stop_calls, stop_mode, stop_len, stop_idx, destroyed,
                 TunnelCount_tunnels, status, interrupts, quits, show_credentials, hosts_error>>

\* variant: the node itself is updated and passed on, no copy is made
process_nexthops_in_place(t) ==
  /\ At(t, "nexthops")
  /\ LET d == objs[Top(t).obj]
         i == Top(t).i IN
       /\ objs' = [objs EXCEPT ![Top(t).obj] = update_bastion_address(
                     [d EXCEPT !.nexthop = d.nexthops[i + 1], !.nexthops = <<>>])]
       /\ stacks' = Call(t, [Top(t) EXCEPT !.i = i + 1,
                                           !.pc = IF i + 1 < Len(d.nexthops)
                                                    THEN "nexthops" ELSE "return"],
                         Frame(Top(t).obj, "make_tunnel", FALSE))
  /\ UNCHANGED <<links, original_hosts, tunnel_defs, connect_tunnels, died, builders, tunnels,
                 tunnel_configs, new_hosts, hosts_file, commits, proc,
                 exit_status, stop_calls, stop_mode, stop_len, stop_idx, destroyed,
                 TunnelCount_tunnels, status, interrupts, quits, show_credentials, hosts_error>>

\* _process_nexthops: one iteration, model_copy makes a clone of the node
\* per child
process_nexthops(t) ==
  /\ At(t, "nexthops")
  /\ LET d == objs[Top(t).obj]
         i == Top(t).i IN
       /\ objs' = Append(objs, update_bastion_address(
                     [d EXCEPT !.nexthop = d.nexthops[i + 1], !.nexthops = <<>>]))
       /\ stacks' = Call(t, [Top(t) EXCEPT !.i = i + 1,
                                           !.pc = IF i + 1 < Len(d.nexthops)
                                                    THEN "nexthops" ELSE "return"],
                         Frame(Len(objs) + 1, "make_tunnel", FALSE))
  /\ UNCHANGED <<links, original_hosts, tunnel_defs, connect_tunnels, died, builders, tunnels,
                 tunnel_configs, new_hosts, hosts_file, commits, proc,
                 exit_status, stop_calls, stop_mode, stop_len, stop_idx, destroyed,
                 TunnelCount_tunnels, status, interrupts, quits, show_credentials, hosts_error>>

\* ------------------------------------------------------------------------
\* Tunnels.__init__ lines 51-53 and Tunnels._monitor_tunnels
\* ------------------------------------------------------------------------
\* make_tunnels has returned: without connect_tunnels the constructor returns
\* and the command ends; otherwise the SIGINT handler is registered and the
\* main thread starts joining the workers.
monitor_tunnels ==
  /\ proc = "make"
  /\ ~Running(Main)
  /\ IF connect_tunnels
       THEN proc' = "join" /\ exit_status' = exit_status
       ELSE proc' = "exited" /\ exit_status' = 0
  /\ UNCHANGED <<links, original_hosts, tunnel_defs, connect_tunnels, objs, stacks, died, builders,
                 tunnels, tunnel_configs, new_hosts, hosts_file, commits,
                 stop_calls, stop_mode, stop_len, stop_idx, destroyed,
                 TunnelCount_tunnels, status, interrupts, quits, show_credentials, hosts_error>>

\* SIGINT before the handler is registered: KeyboardInterrupt in the main
\* thread, outside every try block.
KeyboardInterrupt ==
  /\ proc = "make"
  /\ interrupts < MaxInterrupts
  /\ interrupts' = interrupts + 1
  /\ stacks' = [stacks EXCEPT ![Main] = <<>>]
  /\ proc' = "exited"
  /\ exit_status' = 130
  /\ UNCHANGED <<links, original_hosts, tunnel_defs, connect_tunnels, objs, died, builders, tunnels,
                 tunnel_configs, new_hosts, hosts_file, commits, stop_calls,
                 stop_mode, stop_len, stop_idx, destroyed, TunnelCount_tunnels, status, quits, show_credentials, hosts_error>>

\* variant: the threads are not joined
JoinDone_no_wait == TRUE

\* for thread in self.threads: thread.join()
JoinDone == \A w \in Workers : ~Running(w)

join_threads ==
  /\ proc = "join"
  /\ JoinDone
  /\ proc' = "commit"
  /\ UNCHANGED <<links, original_hosts, tunnel_defs, connect_tunnels, objs, stacks, died, builders,
                 tunnels, tunnel_configs, new_hosts, hosts_file, commits,
                 exit_status, stop_calls, stop_mode, stop_len, stop_idx, destroyed,
                 TunnelCount_tunnels, status, interrupts, quits, show_credentials, hosts_error>>

\* variant: the error of the write is printed and startup goes on
write_changes_to_hosts_file_not_fatal ==
  /\ proc = "commit"
  /\ commits' = commits + 1
  /\ \E written \in BOOLEAN :
       /\ hosts_file' = IF written THEN new_hosts ELSE hosts_file
       /\ hosts_error' = IF written THEN hosts_error ELSE "commit"
  /\ proc' = "check"
  /\ UNCHANGED <<links, original_hosts, tunnel_defs, connect_tunnels, objs, stacks, died, builders,
                 tunnels, tunnel_configs, new_hosts, exit_status, stop_calls,
                 stop_mode, stop_len, stop_idx, destroyed, TunnelCount_tunnels,
                 status, interrupts, quits, show_credentials>>

\* HostsManager.write_changes_to_hosts_file: the write succeeds, or raises
\* HostsException and the process exits with status 1.
write_changes_to_hosts_file ==
  /\ proc = "commit"
  /\ commits' = commits + 1
  /\ \E written \in BOOLEAN :
       IF written
         THEN /\ hosts_file' = new_hosts
              /\ proc' = "check"
              /\ exit_status' = exit_status
              /\ hosts_error' = hosts_error
         ELSE /\ hosts_file' = hosts_file
              /\ proc' = "exited"
              /\ exit_status' = 1
              /\ hosts_error' = "commit"
  /\ UNCHANGED <<links, original_hosts, tunnel_defs, connect_tunnels, objs, stacks, died, builders,
                 tunnels, tunnel_configs, new_hosts, stop_calls, stop_mode,
                 stop_len, stop_idx, destroyed, TunnelCount_tunnels, status,
                 interrupts, quits, show_credentials>>

\* TunnelCount.tunnels and TunnelCount.count
RECURSIVE SeqToSet(_)
SeqToSet(q) == IF q = <<>> THEN {} ELSE {Head(q)} \cup SeqToSet(Tail(q))
TunnelCount_tunnels_property ==
  IF TunnelCount_tunnels = <<>> THEN {}
  ELSE SeqToSet(SubSeq(TunnelCount_tunnels, 1, Len(TunnelCount_tunnels) - 1))
TunnelCount_count == Cardinality(TunnelCount_tunnels_property)

\* Tunnels._check_tunnel_status: the first check, and the check made by the
\* loop whenever 5 seconds have passed.
UpIds == {builders[tunnels[k]].hop : k \in {j \in 1..Len(tunnels) : builders[tunnels[j]].is_active}}
check_tunnel_status ==
  /\ proc \in {"check", "loop"}
  /\ status' = [active |-> Cardinality({k \in 1..Len(tunnels) : builders[tunnels[k]].is_active}),
                total |-> TunnelCount_count,
                down |-> TunnelCount_tunnels_property \ UpIds]
  /\ proc' = "loop"
  /\ UNCHANGED <<links, original_hosts, tunnel_defs, connect_tunnels, objs, stacks, died, builders,
                 tunnels, tunnel_configs, new_hosts, hosts_file, commits,
                 exit_status, stop_calls, stop_mode, stop_len, stop_idx, destroyed,
                 TunnelCount_tunnels, interrupts, quits, show_credentials, hosts_error>>

\* the environment: an established forward is lost while monitoring
tunnel_goes_down(b) ==
  /\ proc = "loop"
  /\ builders[b].is_active
  /\ builders' = [builders EXCEPT ![b].is_active = FALSE]
  /\ UNCHANGED <<links, original_hosts, tunnel_defs, connect_tunnels, objs, stacks, died, tunnels,
                 tunnel_configs, new_hosts, hosts_file, commits, proc,
                 exit_status, stop_calls, stop_mode, stop_len, stop_idx, destroyed,
                 TunnelCount_tunnels, status, interrupts, quits, show_credentials, hosts_error>>

\* entry of Tunnels.stop_tunnels
stop_tunnels(mode) ==
  /\ stop_calls' = stop_calls + 1
  /\ stop_mode' = mode
  /\ proc' = "stop_restore"

\* _check_for_quit returned True: stop_tunnels() then break
check_for_quit ==
  /\ proc = "loop"
  /\ quits' = quits + 1
  /\ stop_tunnels("quit")
  /\ UNCHANGED <<links, original_hosts, tunnel_defs, connect_tunnels, objs, stacks, died, builders,
                 tunnels, tunnel_configs, new_hosts, hosts_file, commits,
                 exit_status, stop_len, stop_idx, destroyed, TunnelCount_tunnels,
                 status, interrupts, show_credentials, hosts_error>>

\* handle_sigint runs in the main thread, whatever it was doing since the
\* handler was registered: stop_tunnels() then exit(0)
HandlerRegistered ==
  proc \in {"join", "commit", "check", "loop", "stop_restore", "stop_destroy"}

handle_sigint ==
  /\ HandlerRegistered
  /\ interrupts < MaxInterrupts
  /\ interrupts' = interrupts + 1
  /\ stop_tunnels("sigint")
  /\ UNCHANGED <<links, original_hosts, tunnel_defs, connect_tunnels, objs, stacks, died, builders,
                 tunnels, tunnel_configs, new_hosts, hosts_file, commits,
                 exit_status, stop_len, stop_idx, destroyed, TunnelCount_tunnels, status, quits, show_credentials, hosts_error>>

\* variant: stop_tunnels goes to its loop without writing the original file
restore_original_hosts_file_skipped ==
  /\ proc = "stop_restore"
  /\ TunnelCount_tunnels' = <<>>
  /\ stop_len' = Len(tunnels)
  /\ stop_idx' = Len(tunnels)
  /\ proc' = "stop_destroy"
  /\ UNCHANGED <<links, original_hosts, tunnel_defs, connect_tunnels, objs, stacks, died, builders,
                 tunnels, tunnel_configs, new_hosts, hosts_file, commits,
                 exit_status, stop_calls, stop_mode, destroyed, status,
                 interrupts, quits, show_credentials, hosts_error>>

\* stop_tunnels lines 224-226: restore_original_hosts_file (python_hosts may
\* raise, nothing catches it), TunnelCount().reset(), reversed(self.tunnels)
restore_original_hosts_file ==
  /\ proc = "stop_restore"
  /\ \E written \in BOOLEAN :
       IF written
         THEN /\ hosts_file' = original_hosts
              /\ TunnelCount_tunnels' = <<>>
              /\ stop_len' = Len(tunnels)
              /\ stop_idx' = Len(tunnels)
              /\ proc' = "stop_destroy"
              /\ exit_status' = exit_status
              /\ hosts_error' = hosts_error
         ELSE /\ proc' = "exited"
              /\ exit_status' = 1
              /\ hosts_error' = "restore"
              /\ UNCHANGED <<hosts_file, TunnelCount_tunnels, stop_len, stop_idx>>
  /\ UNCHANGED <<links, original_hosts, tunnel_defs, connect_tunnels, objs, stacks, died, builders,
                 tunnels, tunnel_configs, new_hosts, commits, stop_calls,
                 stop_mode, destroyed, status, interrupts, quits, show_credentials>>

\* One iteration of the loop of stop_tunnels.  Reading this_tunnel.tunnel
\* raises once destroy_tunnel has deleted it; the forwarder's local_bind_hosts
\* may raise while the forwarder is not started; close() may raise.  Every
\* exception is caught by the except clause of the loop body.
DestroyOutcomes(b) ==
  IF builders[b].deleted THEN {"no_tunnel"}
  ELSE {"closed", "close_raises"}
         \cup (IF builders[b].is_active THEN {} ELSE {"print_raises"})

\* TunnelBuilder.destroy_tunnel on the builder bld: self.tunnel.close(), then
\* del self.tunnel.  Reading self.tunnel raises AttributeError once the
\* attribute is deleted; close() may raise and then nothing is deleted.
TunnelBuilder_destroy_tunnel(bld, close_raises) ==
  IF bld.deleted \/ close_raises
    THEN [builder |-> bld, raised |-> TRUE]
    ELSE [builder |-> [bld EXCEPT !.deleted = TRUE, !.is_active = FALSE],
          raised |-> FALSE]

destroy_tunnel ==
  /\ proc = "stop_destroy"
  /\ stop_idx > 0
  /\ LET b == tunnels[stop_idx] IN
     \E outcome \in DestroyOutcomes(b) :
       /\ destroyed' = IF outcome \in {"closed", "close_raises"}
                         THEN Append(destroyed, b) ELSE destroyed
       /\ builders' = IF outcome \in {"closed", "close_raises"}
                        THEN [builders EXCEPT ![b] =
                                TunnelBuilder_destroy_tunnel(@, outcome = "close_raises").builder]
                        ELSE builders
  /\ stop_idx' = stop_idx - 1
  /\ UNCHANGED <<links, original_hosts, tunnel_defs, connect_tunnels, objs, stacks, died, tunnels,
                 tunnel_configs, new_hosts, hosts_file, commits, proc,
                 exit_status, stop_calls, stop_mode, stop_len,
                 TunnelCount_tunnels, status, interrupts, quits, show_credentials, hosts_error>>

\* stop_tunnels has returned: break and return (quit) or exit(0) (SIGINT)
stop_tunnels_return ==
  /\ proc = "stop_destroy"
  /\ stop_idx = 0
  /\ proc' = "exited"
  /\ exit_status' = 0
  /\ UNCHANGED <<links, original_hosts, tunnel_defs, connect_tunnels, objs, stacks, died, builders,
                 tunnels, tunnel_configs, new_hosts, hosts_file, commits,
                 stop_calls, stop_mode, stop_len, stop_idx, destroyed,
                 TunnelCount_tunnels, status, interrupts, quits, show_credentials, hosts_error>>

\* ------------------------------------------------------------------------
\* The urls command
\* ------------------------------------------------------------------------
\* variant: the list of aliases is looked at before the single alias
urls_entries_first(e) ==
  IF "hosts_file_entries" \in DOMAIN e /\ e.hosts_file_entries # <<>>
    THEN [i \in 1..Len(e.hosts_file_entries) |->
            <<e.protocol, e.hosts_file_entries[i], e.port>>]
  ELSE IF "hosts_file_entry" \in DOMAIN e /\ e.hosts_file_entry \notin {None, ""}
    THEN << <<e.protocol, e.hosts_file_entry, e.port>> >>
  ELSE << <<e.protocol, e.host, e.port>> >>

\* The body of the loop of urls on one flattened entry: the URLs, each
\* f"{protocol}://{name}:{port}" kept as the triple of its three fields;
\* a truthy hosts_file_entry wins over a non-empty hosts_file_entries, which
\* wins over host.
urls(e) ==
  IF "hosts_file_entry" \in DOMAIN e /\ e.hosts_file_entry \notin {None, ""}
    THEN << <<e.protocol, e.hosts_file_entry, e.port>> >>
  ELSE IF "hosts_file_entries" \in DOMAIN e /\ e.hosts_file_entries # <<>>
    THEN [i \in 1..Len(e.hosts_file_entries) |->
            <<e.protocol, e.hosts_file_entries[i], e.port>>]
  ELSE << <<e.protocol, e.host, e.port>> >>

\* urls: Tunnels(config_file, connect_tunnels=False) has returned; links gets
\* one list of URLs per entry of tunnel_configs as it is when the loop runs
\* (the threads of the construction are not joined), in the order of the list.
urls_command ==
  /\ proc = "exited"
  /\ exit_status = 0
  /\ ~connect_tunnels
  /\ ~show_credentials
  /\ links = <<>>
  /\ links' = [k \in 1..Len(tunnel_configs) |->
                 [id |-> tunnel_configs[k].id, urls |-> urls(tunnel_configs[k])]]
  /\ UNCHANGED <<original_hosts, tunnel_defs, connect_tunnels, objs, stacks, died, builders,
                 tunnels, tunnel_configs, new_hosts, hosts_file, commits, proc,
                 exit_status, stop_calls, stop_mode, stop_len, stop_idx, destroyed,
                 TunnelCount_tunnels, status, interrupts, quits, show_credentials,
                 hosts_error>>

\* ------------------------------------------------------------------------
\* Specification
\* ------------------------------------------------------------------------
Next ==
  \/ Tunnels_init
  \/ make_tunnels
  \/ \E t \in Threads : make_tunnel(t)
  \/ \E t \in Threads : process_nexthop(t)
  \/ \E t \in Threads : lookup_host(t)
  \/ \E t \in Threads : RunCommand_run(t)
  \/ \E t \in Threads : start_tunnel(t)
  \/ \E t \in Threads : add_to_hosts(t)
  \/ \E t \in Threads : new_hosts_add(t)
  \/ \E t \in Threads : entries_append(t)
  \/ \E t \in Threads : tunnels_append(t)
  \/ \E t \in Threads : process_nexthops(t)
  \/ monitor_tunnels
  \/ KeyboardInterrupt
  \/ join_threads
  \/ write_changes_to_hosts_file
  \/ check_tunnel_status
  \/ \E b \in 1..Len(builders) : tunnel_goes_down(b)
  \/ check_for_quit
  \/ handle_sigint
  \/ restore_original_hosts_file
  \/ destroy_tunnel
  \/ stop_tunnels_return
  \/ urls_command

Spec == Init /\ [][Next]_vars


\* ------------------------------------------------------------------------
\* Properties
\* ------------------------------------------------------------------------
RECURSIVE Reverse(_)
Reverse(q) == IF q = <<>> THEN <<>> ELSE Append(Reverse(Tail(q)), Head(q))

Builders == 1..Len(builders)
Recorded(n) == \E k \in 1..Len(tunnel_configs) : tunnel_configs[k].id = n
LocalBind(n) == <<tunnel_defs[n].localbindaddress, tunnel_defs[n].localbindport>>
IsClone(o) == o > Len(tunnel_defs)
MakeTunnelsReturned ==
  \/ proc \in {"join", "commit", "check", "loop", "stop_restore", "stop_destroy"}
  \/ proc = "exited" /\ (exit_status = 0 \/ commits > 0 \/ stop_calls > 0)
AllFinished == MakeTunnelsReturned /\ \A t \in Threads : ~Running(t)

\* C1 as stated: once make_tunnel has reached a non-root hop, the host/port the
\* hop carries are the local bind address and port of its immediate parent.
C1_DialsParentLocalBind ==
  \A n \in NodeIds :
    (~IsRoot(n) /\ Recorded(n)) => <<objs[n].host, objs[n].port>> = LocalBind(Parent(n))

\* C1 amended: once make_tunnel has reached a non-root hop, the host/port the
\* hop carries are its own local bind address and port (the listener of the
\* forward built through its parent); so every forwarder whose bastion is a
\* clone made for nexthops or a non-root hop dials the local bind of that
\* bastion, the immediate parent of the hop it builds, and a forwarder whose
\* bastion is the root itself dials the root's configured host and port.
C1_RewrittenToOwnLocalBind ==
  /\ \A n \in NodeIds :
       (~IsRoot(n) /\ Recorded(n)) => <<objs[n].host, objs[n].port>> = LocalBind(n)
  /\ \A b \in Builders :
       builders[b].created =>
         builders[b].ssh_address =
           IF IsRoot(builders[b].bastion) /\ ~IsClone(builders[b].config)
             THEN <<tunnel_defs[builders[b].bastion].host, tunnel_defs[builders[b].bastion].port>>
             ELSE LocalBind(builders[b].bastion)

\* C1 witness: a forwarder was created through a clone made for the nexthops
\* of a non-root hop, and the hop it builds has been rewritten and recorded.
C1_Witness ==
  \E b \in Builders :
    /\ builders[b].created
    /\ ~IsRoot(builders[b].bastion)
    /\ IsClone(builders[b].config)
    /\ Recorded(builders[b].hop)

\* C2: a TunnelBuilder whose bastion is a non-root hop exists only after the
\* TunnelBuilder that forwards to that bastion has left start_tunnel with at
\* least one connect attempt made.
C2_ParentAttemptedFirst ==
  \A b \in Builders :
    ~IsRoot(builders[b].bastion) =>
      \E a \in Builders :
        /\ builders[a].hop = builders[b].bastion
        /\ builders[a].finished
        /\ builders[a].attempts >= 1

\* C2 witness: with a worker thread spawned, a TunnelBuilder whose bastion is
\* a non-root hop has made a connect attempt.
C2_Witness ==
  \E b \in Builders :
    /\ ~IsRoot(builders[b].bastion)
    /\ builders[b].attempts >= 1
    /\ Len(stacks) > 1

\* C3 as stated: once make_tunnels has returned and every thread has ended,
\* tunnel_configs has one entry per node of the tree.
C3_OneEntryPerNode ==
  AllFinished =>
    /\ Len(tunnel_configs) = Len(tunnel_defs)
    /\ \A n \in NodeIds : Recorded(n)

\* C3 amended: tunnel_configs never holds two entries with the same id, and
\* once make_tunnels has returned and every thread has ended it holds an
\* entry for exactly the root and the hops whose TunnelBuilder was
\* constructed and registered (every hop when not connecting).
C3_OneEntryPerBuiltNode ==
  /\ \A j, k \in 1..Len(tunnel_configs) :
       tunnel_configs[j].id = tunnel_configs[k].id => j = k
  /\ AllFinished =>
       \A n \in NodeIds :
         Recorded(n) <=> \/ IsRoot(n)
                         \/ ~connect_tunnels
                         \/ \E k \in 1..Len(tunnels) : builders[tunnels[k]].hop = n

\* C3 witness: a connecting run over a tree with nexthops clones has ended
\* with one entry per node.
C3_Witness ==
  /\ AllFinished
  /\ connect_tunnels
  /\ Len(objs) > Len(tunnel_defs) + 1
  /\ Len(tunnel_configs) = Len(tunnel_defs)

\* C4: when the only call of stop_tunnels has returned, destroy_tunnel has
\* been invoked on the builders registered at that call, in exactly the
\* reverse of their order in the registry.
C4_DestroyedInReverse ==
  (proc = "exited" /\ exit_status = 0 /\ stop_calls = 1) =>
    destroyed = Reverse(SubSeq(tunnels, 1, stop_len))

\* C5: start_tunnel makes at most 3 attempts, leaves its loop exactly when an
\* attempt found the forwarder active or 3 attempts are made, makes no
\* attempt afterwards, and a forwarder that was never active is left down
\* without an exception in its thread.
C5_RetryBudget ==
  /\ [](\A b \in Builders :
          /\ builders[b].attempts <= 3
          /\ builders[b].created =>
               (builders[b].finished <=> (builders[b].started \/ builders[b].attempts = 3))
          /\ (builders[b].finished /\ ~builders[b].started) =>
               (~builders[b].is_active /\ builders[b].thread \notin died))
  /\ [][\A b \in Builders :
          builders[b].finished => builders'[b].attempts = builders[b].attempts]_vars

\* C5 witness: a forwarder used up its three attempts without ever being
\* active and the monitor loop is running.
C5_Witness ==
  \E b \in Builders :
    /\ builders[b].finished
    /\ ~builders[b].started
    /\ builders[b].attempts = 3
    /\ proc = "loop"

\* C6: write_changes_to_hosts_file is called at most once, exactly once by
\* the time the monitor loop runs, only when every thread has ended, and
\* nothing is staged once it is about to be called.
C6_CommitOnceAfterJoin ==
  /\ [](/\ commits <= 1
        /\ proc \in {"check", "loop"} => commits = 1
        /\ (commits >= 1 \/ proc = "commit") => \A t \in Threads : ~Running(t))
  /\ [][new_hosts' # new_hosts => (commits = 0 /\ proc # "commit")]_vars

\* C6 witness: with two workers spawned and entries staged, the monitor loop
\* runs after the single commit wrote the staged entries.
C6_Witness ==
  /\ commits = 1
  /\ proc = "loop"
  /\ Len(stacks) > 2
  /\ Len(new_hosts) > Len(OriginalEntries)
  /\ hosts_file = new_hosts

\* C7: when the process has ended after a single SIGINT or quit keypress that
\* arrived after the hosts file was committed (while monitoring),
\* stop_tunnels was called once and the exit status is 0.
C7_StopOnceExitZero ==
  (proc = "exited" /\ commits = 1 /\ interrupts + quits = 1 /\ stop_calls >= 1) =>
    (stop_calls = 1 /\ exit_status = 0)

\* C8: no TunnelBuilder is made below a hop whose TunnelBuilder used up its
\* attempts without the forwarder becoming active.
C8_NoBuilderBelowFailedHop ==
  \A a, b \in Builders :
    (builders[a].finished /\ ~builders[a].started) =>
      builders[b].bastion # builders[a].hop

StatusCheck == proc \in {"check", "loop"} /\ proc' = "loop" /\ builders' = builders
C10_StatusIsAccurate ==
  [][StatusCheck =>
       status' = [active |-> Cardinality({k \in 1..Len(tunnels) : builders[tunnels[k]].is_active}),
                  total |-> Len(tunnels),
                  down |-> {builders[tunnels[k]].hop :
                              k \in {j \in 1..Len(tunnels) : ~builders[tunnels[j]].is_active}}]]_vars

\* C11: destroy_tunnel called again on a TunnelBuilder whose tunnel it has
\* already destroyed does not raise and leaves the builder as it is.
C11_DestroyIsIdempotent ==
  \A b \in Builders :
    builders[b].deleted =>
      LET again == TunnelBuilder_destroy_tunnel(builders[b], FALSE) IN
        ~again.raised /\ again.builder = builders[b]

\* C12: when writing the original hosts file back fails in stop_tunnels, the
\* process does not end with an error: stop_tunnels goes on to its loop over
\* the registered builders and the process ends with status 0.
C12_RestoreFailureNotFatal ==
  hosts_error = "restore" => (proc = "exited" => exit_status = 0)

\* C13: when the write of the staged entries fails at the startup commit, the
\* process has ended with a non-zero status, no status check of the monitor
\* loop was ever made, and an ended process stays ended.
C13_CommitFailureIsFatal ==
  /\ [](hosts_error = "commit" =>
          /\ proc = "exited"
          /\ exit_status \notin {0, -1}
          /\ status = NoStatus
          /\ stop_calls = 0)
  /\ [][proc = "exited" => (proc' = "exited" /\ exit_status' = exit_status)]_vars

\* C13 witness: the commit failed with aliases staged by the builders.
C13_Witness ==
  /\ hosts_error = "commit"
  /\ Len(new_hosts) > Len(OriginalEntries)
  /\ hosts_file = OriginalEntries

\* C14: whenever destroy_tunnel has been invoked on some builder, the hosts
\* file holds the original snapshot again, and destroy_tunnel is invoked
\* only from the loop of stop_tunnels, which is entered after the restore.
C14_RestoreBeforeDestroy ==
  /\ [](destroyed # <<>> => hosts_file = OriginalEntries)
  /\ [][destroyed' # destroyed => (proc = "stop_destroy" /\ hosts_file = OriginalEntries)]_vars

\* C14 witness: aliases were committed to the hosts file, and a builder has
\* been destroyed by stop_tunnels.
C14_Witness ==
  /\ destroyed # <<>>
  /\ commits = 1
  /\ Len(new_hosts) > Len(OriginalEntries)

\* The order in which make_tunnel reaches the nodes when every thread it
\* starts runs to its end before the starting thread goes on: the node, the
\* subtree of its nexthop, then the subtrees of its nexthops in order.
RECURSIVE Preorder(_, _), PreorderAll(_, _)
Preorder(cfg, n) ==
  <<n>> \o (IF cfg[n].nexthop # 0 THEN Preorder(cfg, cfg[n].nexthop) ELSE <<>>)
        \o PreorderAll(cfg, cfg[n].nexthops)
PreorderAll(cfg, q) ==
  IF q = <<>> THEN <<>> ELSE Preorder(cfg, Head(q)) \o PreorderAll(cfg, Tail(q))

\* The flattened entry of node n in a run that does not connect: the root as
\* configured, any other hop after _update_bastion_address.
FlattenedEntry(cfg, n) ==
  model_dump(IF IsRoot(n) THEN cfg[n] ELSE update_bastion_address(cfg[n]))
DryRunEntry(n) == FlattenedEntry(tunnel_defs, n)

\* C15: every finished run with connect_tunnels = FALSE over a config ends
\* with one and the same flattened list, the list of the run in which no two
\* threads interleave: same entries, same order, same field values.
C15_DryRunIsDeterministic ==
  (~connect_tunnels /\ AllFinished) =>
    tunnel_configs = [k \in 1..Len(tunnel_defs) |-> DryRunEntry(Preorder(tunnel_defs, Roots[1])[k])]

\* C16: in a run with connect_tunnels = FALSE no TunnelBuilder is ever made
\* or registered, nothing is staged in the hosts registry, the hosts file is
\* never written, and the main thread never enters _monitor_tunnels.
C16_DryRunTouchesNothing ==
  ~connect_tunnels =>
    /\ builders = <<>>
    /\ tunnels = <<>>
    /\ new_hosts = OriginalEntries
    /\ hosts_file = OriginalEntries
    /\ commits = 0
    /\ hosts_error = None
    /\ status = NoStatus
    /\ stop_calls = 0
    /\ proc \in {"new", "init", "make", "exited"}

\* C16 witness: a run that does not connect has ended, with every node
\* recorded, over a tree in which a hop declares an alias for the hosts file.
C16_Witness ==
  /\ ~connect_tunnels
  /\ AllFinished
  /\ Len(tunnel_configs) = Len(tunnel_defs)
  /\ \E n \in NodeIds : tunnel_defs[n].hosts_file_entry # None

CredentialFields == {"sshuser", "sshpass", "sshkeyfile"}
AlwaysExcludedFields == {"nexthop", "nexthops", "localbindaddress", "localbindport"}

\* C17: no flattened entry has nexthop, nexthops, localbindaddress or
\* localbindport; with show_credentials the entry has sshuser, sshpass and
\* sshkeyfile with the resolved values of its hop; without show_credentials
\* it has none of them, and in a run that does not connect the entry is the
\* one of the same config under any other credentials.
C17_CredentialRedaction ==
  \A k \in 1..Len(tunnel_configs) :
    LET e == tunnel_configs[k]
        d == tunnel_defs[e.id] IN
      /\ DOMAIN e \cap AlwaysExcludedFields = {}
      /\ show_credentials =>
           /\ CredentialFields \subseteq DOMAIN e
           /\ e.sshuser = d.sshuser
           /\ e.sshpass = d.sshpass
           /\ e.sshkeyfile = d.sshkeyfile
      /\ ~show_credentials => DOMAIN e \cap CredentialFields = {}
      /\ (~show_credentials /\ ~connect_tunnels) =>
           \A cr \in Credentials : e = FlattenedEntry(WithCredentials(tunnel_defs, cr), e.id)

\* C17 witness: a run without show_credentials over a profile with a
\* password has recorded every node.
C17_Witness ==
  /\ ~show_credentials
  /\ ~connect_tunnels
  /\ tunnel_defs[1].sshpass # None
  /\ Len(tunnel_configs) = Len(tunnel_defs)

IsTwoHop == tunnel_defs \in {WithCredentials(TwoHop, cr) : cr \in Credentials}
DryRunDone == ~connect_tunnels /\ AllFinished

\* C18 as stated: the finished dry run of the chain bastion -> svc has two
\* entries and the entry of svc reports the declared host and port of svc.
C18_ReportsDeclaredAddress ==
  (IsTwoHop /\ DryRunDone) =>
    /\ Len(tunnel_configs) = 2
    /\ tunnel_configs[2].id = 2
    /\ tunnel_configs[2].host = "10.0.0.5"
    /\ tunnel_configs[2].port = 80

\* C18 amended: the finished dry run of the chain bastion -> svc has two
\* entries, bastion with its declared host and port and svc with its own
\* local bind address and port as host and port.
C18_ReportsLocalBind ==
  (IsTwoHop /\ DryRunDone) =>
    /\ Len(tunnel_configs) = 2
    /\ tunnel_configs[1].id = 1
    /\ tunnel_configs[1].host = "example.com"
    /\ tunnel_configs[1].port = 2222
    /\ tunnel_configs[2].id = 2
    /\ tunnel_configs[2].host = "127.0.0.1"
    /\ tunnel_configs[2].port = 10001

\* C18 witness: the dry run of the chain bastion -> svc has finished.
C18_Witness == IsTwoHop /\ DryRunDone /\ Len(tunnel_configs) = 2

IsLinearChain == \A n \in NodeIds : tunnel_defs[n].nexthops = <<>>

\* C19: in a run that does not connect over a linear chain, the entry of the
\* root has the root's configured host and port, and the entry of any other
\* hop has the hop's localbindaddress and localbindport as host and port;
\* the only URL of a hop without alias is made of these two.
C19_DryRunReportsLocalBind ==
  (~connect_tunnels /\ IsLinearChain) =>
    \A k \in 1..Len(tunnel_configs) :
      LET e == tunnel_configs[k]
          d == tunnel_defs[e.id] IN
        IF IsRoot(e.id)
          THEN e.host = d.host /\ e.port = d.port
          ELSE /\ e.host = d.localbindaddress
               /\ e.port = d.localbindport
               /\ (d.hosts_file_entry = None /\ d.hosts_file_entries = <<>>) =>
                    urls(e) = << <<d.protocol, d.localbindaddress, d.localbindport>> >>

\* C19 witness: the dry run of the three-hop chain has finished with every
\* hop recorded; the middle hop has no alias, the last hop has one.
C19_Witness ==
  /\ DryRunDone
  /\ IsLinearChain
  /\ Len(tunnel_defs) = 3
  /\ Len(tunnel_configs) = 3
  /\ tunnel_defs[2].hosts_file_entry = None
  /\ tunnel_defs[3].hosts_file_entry # None

\* C20: the chains of a profile with several roots are built independently
\* of each other; in particular such a profile is built at all: the process
\* never ends with an error before any hop has been processed.
C20_RootsBuiltIndependently ==
  ConfigIsList => ~(proc = "exited" /\ exit_status = 1 /\ tunnel_configs = <<>>)

\* C21: when the process has ended after stop_tunnels was entered a second
\* time (a SIGINT during or after the teardown started by the first call),
\* no exception left the teardown (exit status 0) and the hosts file equals
\* the snapshot HostsManager took when it was made.
C21_ReentrantStopIsSafe ==
  (proc = "exited" /\ stop_calls >= 2)
    => (exit_status = 0 /\ hosts_file = OriginalEntries)

\* the aliases a hop declares (hosts_file_entries, hosts_file_entry, hostlookup)
DeclaredNames(n) == SeqToSet(HostNames(tunnel_defs[n]))

\* C22: once the main thread has joined every worker, the staged entries of
\* the shared HostsManager hold every alias of every hop whose TunnelBuilder
\* called add_to_hosts (the registered builders), and every staged entry is
\* the original file's or an alias of the hop it is staged for: the unlocked
\* concurrent calls lose and corrupt nothing.
C22_NoStagedEntryLost ==
  (proc = "commit" \/ commits >= 1) =>
    /\ \A k \in 1..Len(tunnels) :
         \A name \in DeclaredNames(builders[tunnels[k]].hop) :
           \E j \in 1..Len(new_hosts) :
             new_hosts[j] = [name |-> name, what_for |-> builders[tunnels[k]].hop]
    /\ \A j \in 1..Len(new_hosts) :
         \/ j <= Len(OriginalEntries) /\ new_hosts[j] = OriginalEntries[j]
         \/ /\ new_hosts[j].what_for \in NodeIds
            /\ new_hosts[j].name \in DeclaredNames(new_hosts[j].what_for)

\* two workers have staged their aliases, the worker started second first
C22_Witness ==
  /\ proc = "commit"
  /\ Len(stacks) = 3
  /\ Len(tunnels) = 2
  /\ Len(new_hosts) = 3
  /\ new_hosts[2].what_for = 3
  /\ new_hosts[3].what_for = 2

\* C23: for a profile in which a hop lacks localbindport or id, the engine's
\* construction raises at TunnelDefinition(**self.config): the process ends
\* with an error status, and at no time is there a TunnelBuilder (hence no
\* SSH session and no remote command), a make_tunnel frame, a recorded entry
\* or a staged hosts entry.
C23_InvalidConfigRejectedFirst ==
  (\E n \in NodeIds : tunnel_defs[n].localbindport = Missing \/ tunnel_defs[n].id = Missing)
    => /\ proc \in {"new", "exited"}
       /\ proc = "exited" => exit_status = 1
       /\ builders = <<>>
       /\ \A t \in Threads : ~Running(t)
       /\ tunnel_configs = <<>>
       /\ new_hosts = OriginalEntries
       /\ hosts_file = OriginalEntries

\* the constructor was run on a profile whose second hop has no localbindport
C23_Witness ==
  /\ tunnel_defs[2].localbindport = Missing
  /\ connect_tunnels
  /\ proc = "exited"
  /\ exit_status = 1

\* C24: what the urls command printed for an entry follows the precedence:
\* with hosts_file_entry set, exactly one URL, made with that alias; else
\* with a non-empty hosts_file_entries, one URL per alias, in order; else
\* exactly one URL made with host.  Every URL is made of the entry's
\* protocol, the chosen name and the entry's port.
C24_UrlPrecedence ==
  \A k \in 1..Len(links) :
    LET e == tunnel_configs[k]
        u == links[k].urls IN
      /\ links[k].id = e.id
      /\ IF e.hosts_file_entry # None
           THEN u = << <<e.protocol, e.hosts_file_entry, e.port>> >>
           ELSE IF e.hosts_file_entries # <<>>
             THEN /\ Len(u) = Len(e.hosts_file_entries)
                  /\ \A i \in 1..Len(u) : u[i] = <<e.protocol, e.hosts_file_entries[i], e.port>>
             ELSE u = << <<e.protocol, e.host, e.port>> >>

\* urls has printed the two-hop chain: two URLs for the bastion's two aliases,
\* one URL for svc, whose single alias wins over its list
C24_Witness ==
  /\ IsTwoHop
  /\ Len(links) = 2
  /\ links[1].urls = << <<"ssh", "bastion.local", 2222>>, <<"ssh", "bastion", 2222>> >>
  /\ links[2].urls = << <<"ssh", "svc.local", 10001>> >>

\* C25: RunCommand.run issues the remote exec at most three times: while a
\* thread is in the loop of run, the index of the attempt it is about to
\* make is below 3; a further attempt is pending only when the attempt
\* before it ended with paramiko.SSHException; and once an attempt has
\* succeeded the thread is out of the loop (the forwarder of that builder is
\* made, or the command's exit status ended the thread).
C25_ExecAtMostThreeTimes ==
  /\ \A t \in Threads :
       At(t, "run") =>
         /\ Top(t).i < 3
         /\ Top(t).i > 0 => builders[Top(t).b].last_exec = "SSHException"
         /\ Top(t).i = 0 => builders[Top(t).b].last_exec = None
  /\ \A b \in Builders :
       builders[b].last_exec \in {"ok", "other"} =>
         ~(At(builders[b].thread, "run") /\ Top(builders[b].thread).b = b)

\* two attempts have failed with SSHException, the third and last is pending
C25_Witness ==
  \E t \in Threads :
    /\ At(t, "run")
    /\ Top(t).i = 2
    /\ builders[Top(t).b].last_exec = "SSHException"

\* C26: no hop's host is ever the empty string: a lookup whose command
\* printed nothing does not overwrite the host.
C26_HostNeverEmpty ==
  \A n \in 1..Len(objs) : objs[n].host # ""

\* C30: a lookup session that failed to connect or authenticate does not end
\* the process: the process has not ended with an error status before the
\* hosts file was committed and before any teardown, whichever thread
\* processed the hop.
C30_LookupFailureContained ==
  (\E b \in Builders : builders[b].session = "failed")
    => ~(proc = "exited" /\ exit_status = 1 /\ commits = 0 /\ stop_calls = 0)

\* C27: _add_to_processed_configs keeps the first occurrence per id: no step
\* removes or changes an entry of tunnel_configs, and a step of make_tunnel
\* on a node whose id is already recorded (the clone of a parent, visited
\* again for every fan-out child) leaves the list as it is and still goes on
\* with the node's nexthop, in a new thread or in the calling thread.
C27_FirstOccurrenceKept ==
  [][/\ Len(tunnel_configs') >= Len(tunnel_configs)
     /\ \A k \in 1..Len(tunnel_configs) : tunnel_configs'[k] = tunnel_configs[k]
     /\ \A t \in Threads :
          (/\ At(t, "make_tunnel")
           /\ Recorded(objs[Top(t).obj].id)
           /\ stacks'[t] # stacks[t]
           /\ proc' = proc)
            => /\ tunnel_configs' = tunnel_configs
               /\ objs[Top(t).obj].nexthop # 0 =>
                    \/ Len(stacks') = Len(stacks) + 1
                    \/ stacks'[t][Len(stacks'[t])].pc = "process_nexthop"]_vars

\* both children of the fan-out are being built from clones of the root; the
\* root's entry is still the one recorded at the first visit
C27_Witness ==
  /\ connect_tunnels
  /\ Len(objs) = Len(tunnel_defs) + 2
  /\ Len(builders) = 2
  /\ Len(tunnel_configs) = 3
  /\ \A o \in Len(tunnel_defs) + 1 .. Len(objs) : objs[o].id = 1 /\ objs[o].host # tunnel_defs[1].host
  /\ tunnel_configs[1].id = 1
  /\ tunnel_configs[1].host = tunnel_defs[1].host

\* the clones made of node n so far
ClonesOf(n) == {o \in Len(tunnel_defs) + 1 .. Len(objs) : objs[o].id = n}

\* C28: every iteration of _process_nexthops adds one clone of the node
\* whose nexthop is the child, whose nexthops is empty and whose host and
\* port are the node's own local bind, and changes no other object, the
\* node itself included; a node keeps its declared nexthop and nexthops for
\* the whole run; and the clones of one node differ in nothing but the
\* child, whatever the order of the children.
C28_ExpansionWorksOnClones ==
  /\ [](/\ \A n \in NodeIds :
             /\ objs[n].nexthop = tunnel_defs[n].nexthop
             /\ objs[n].nexthops = tunnel_defs[n].nexthops
        /\ \A n \in NodeIds : \A c1, c2 \in ClonesOf(n) :
             [objs[c1] EXCEPT !.nexthop = 0] = [objs[c2] EXCEPT !.nexthop = 0])
  /\ [][\A t \in Threads :
          (At(t, "nexthops") /\ stacks'[t] # stacks[t] /\ proc' = proc) =>
            LET o == Top(t).obj
                d == objs[o]
                c == Len(objs) + 1 IN
              /\ Len(objs') = c
              /\ \A n \in 1..Len(objs) : objs'[n] = objs[n]
              /\ objs'[c] = [d EXCEPT !.nexthop = d.nexthops[Top(t).i + 1],
                                      !.nexthops = <<>>,
                                      !.host = d.localbindaddress,
                                      !.port = d.localbindport]
              /\ stacks'[t][Len(stacks'[t])].obj = c]_vars

\* the root of the fan-out has been expanded for both children: two clones,
\* the root object as declared
C28_Witness ==
  /\ Cardinality(ClonesOf(1)) = 2
  /\ \E c1, c2 \in ClonesOf(1) : objs[c1].nexthop = 2 /\ objs[c2].nexthop = 3
  /\ objs[1] = tunnel_defs[1]
  /\ objs[1].nexthops = <<2, 3>>

\* C29: the node a TunnelBuilder was constructed with, and every node
\* make_tunnel was called on from _process_nexthop or _process_nexthops, has
\* at most one of nexthop and nexthops populated.
C29_AtMostOneOfNexthopNexthops ==
  /\ \A b \in Builders :
       ~(objs[builders[b].config].nexthop # 0 /\ objs[builders[b].config].nexthops # <<>>)
  /\ \A t \in Threads : \A k \in 2..Len(stacks[t]) :
       stacks[t][k].pc = "make_tunnel" =>
         ~(objs[stacks[t][k].obj].nexthop # 0 /\ objs[stacks[t][k].obj].nexthops # <<>>)

\* C31: when every attempt of RunCommand.run has failed with
\* paramiko.SSHException (the last attempt of builder b ended that way and
\* its thread has left the loop), no exception has left run: the worker was
\* not ended by an exception, and the main thread did not end the process
\* with an error status.
C31_ExhaustedRetriesNotRaised ==
  \A b \in Builders :
    (/\ builders[b].last_exec = "SSHException"
     /\ ~builders[b].created
     /\ ~At(builders[b].thread, "run")
     /\ interrupts = 0)
      => /\ builders[b].thread \notin died
         /\ ~(builders[b].thread = Main /\ proc = "exited" /\ exit_status = 1)

\* C32: every staged entry beyond the original file's belongs to a hop whose
\* forwarder became active in start_tunnel: nothing is staged for a hop that
\* used up its retries without becoming active.
C32_AliasesOnlyForReachableHops ==
  \A j \in Len(OriginalEntries) + 1 .. Len(new_hosts) :
    \E b \in Builders :
      /\ builders[b].hop = new_hosts[j].what_for
      /\ builders[b].started

\* C33: commit followed by restore is a round trip: whatever is staged, the
\* snapshot HostsManager took when it was made is never modified, and every
\* restore_original_hosts_file that goes through leaves the hosts file with
\* exactly the entries of that snapshot.
C33_CommitRestoreRoundTrip ==
  /\ [](original_hosts = OriginalEntries)
  /\ [][(proc = "stop_restore" /\ proc' = "stop_destroy")
          => hosts_file' = OriginalEntries]_vars

\* aliases were staged and committed, and the restore has gone through
C33_Witness ==
  /\ commits = 1
  /\ hosts_error = None
  /\ Len(new_hosts) > Len(OriginalEntries)
  /\ proc = "stop_destroy"
  /\ hosts_file = OriginalEntries

\* C34: the registry lists the TunnelBuilder of an edge P->C before the
\* TunnelBuilder of any edge C->D, and stop_tunnels destroys a descendant's
\* tunnel before its ancestor's: when destroy_tunnel has been invoked on the
\* builder of P->C, it has been invoked before that on every builder whose
\* forwarder for an edge C->D had been made.
C34_DescendantsDestroyedFirst ==
  /\ \A i, j \in 1..Len(tunnels) :
       builders[tunnels[j]].bastion = builders[tunnels[i]].hop => i < j
  /\ \A k \in 1..Len(destroyed) :
       \A d \in Builders :
         (builders[d].created /\ builders[d].bastion = builders[destroyed[k]].hop)
           => \E m \in 1..(k - 1) : destroyed[m] = d

\* C35: once stop_tunnels has returned and the process has ended normally,
\* destroy_tunnel has been invoked on every TunnelBuilder whose forwarder a
\* worker thread had made, also when the interrupt came while workers were
\* still in their connect attempts.
C35_EveryBuilderDestroyed ==
  (proc = "exited" /\ exit_status = 0 /\ stop_calls >= 1) =>
    \A b \in Builders :
      (builders[b].thread # Main /\ builders[b].created)
        => \E k \in 1..Len(destroyed) : destroyed[k] = b

\* C36: in a run with connect_tunnels = FALSE, when the Tunnels constructor
\* has returned, tunnel_configs is complete: it has an entry for every hop
\* of the config, the leaf hops that worker threads process included.
C36_DryRunCompleteAtReturn ==
  (~connect_tunnels /\ proc = "exited" /\ exit_status = 0) =>
    \A n \in NodeIds : Recorded(n)

HasOneChild(p) == Cardinality(Children(p)) = 1

\* C37: a parent with exactly one child gives the same TunnelBuilder whether
\* the child is declared as nexthop or as a one-element nexthops list: the
\* forwarder's SSH gateway, remote bind and local bind are those the nexthop
\* form makes (the gateway of a root parent is its configured host and port,
\* of any other parent its local bind), and the flattened entries carry the
\* same host and port.
C37_NexthopsOfOneIsNexthop ==
  /\ \A b \in Builders :
       LET p == builders[b].bastion
           c == builders[b].hop IN
         (builders[b].created /\ HasOneChild(p) /\ tunnel_defs[c].hostlookup = None) =>
           /\ builders[b].ssh_address =
                (IF IsRoot(p) THEN <<tunnel_defs[p].host, tunnel_defs[p].port>>
                              ELSE LocalBind(p))
           /\ builders[b].remote_bind_address = <<tunnel_defs[c].host, tunnel_defs[c].port>>
           /\ builders[b].local_bind_address = LocalBind(c)
  /\ \A k \in 1..Len(tunnel_configs) :
       LET n == tunnel_configs[k].id IN
         (~IsRoot(n) /\ HasOneChild(Parent(n)) /\ tunnel_defs[n].hostlookup = None) =>
           /\ tunnel_configs[k].host = FlattenedEntry(tunnel_defs, n).host
           /\ tunnel_configs[k].port = FlattenedEntry(tunnel_defs, n).port

\* C38: the session that resolves nexthop.hostlookup dials the same
\* (host, port) as the hop's forwarder then uses as its SSH gateway, whether
\* the bastion of the hop is the root or not.
C38_LookupDialsTheGateway ==
  \A b \in Builders :
    (builders[b].created /\ builders[b].lookup_dial # NoAddr)
      => builders[b].lookup_dial = builders[b].ssh_address

\* C39: when the only call of stop_tunnels has returned and the close() of
\* some TunnelBuilder had raised in it, destroy_tunnel has nevertheless been
\* attempted on every builder registered at that call, and the process has
\* ended normally.
C39_DestroyFailureIsContained ==
  (/\ proc = "exited"
   /\ stop_calls = 1
   /\ \E k \in 1..Len(destroyed) : ~builders[destroyed[k]].deleted)
    => /\ exit_status = 0
       /\ \A k \in 1..stop_len : \E m \in 1..Len(destroyed) : destroyed[m] = tunnels[k]

====
